---------------------------- MODULE Spec2Model ----------------------------
(***************************************************************************)
(* A model of the terminal text viewer of src/src/main.rs: the session     *)
(* loop of main, Output::refresh_screen (scroll, draw_rows, flush),        *)
(* Editor::process_keypress, CursorController and the CleanUp guard.       *)
(*                                                                         *)
(* usize values are kept as integers.  The only usize operation of the     *)
(* program that can leave the range is `screen_column - 1` with            *)
(* screen_column = 0: a build with overflow checks panics, a build without *)
(* wraps to 2^64 - 1.  A wrapped value v >= 2^63 is represented by the     *)
(* integer v - 2^64 (so 2^64 - 1 is -1); +1, -1, = and the cast to u16     *)
(* (% 65536) agree with arithmetic modulo 2^64 on this representation.     *)
(***************************************************************************)
EXTENDS Integers, Sequences, FiniteSets, TLC

(* ------------------------------ bounds -------------------------------- *)

\* largest number of window columns terminal::size() reports
MaxColumns == 3
\* largest number of window rows terminal::size() reports
MaxRows == 3
\* largest number of lines of the file
MaxLines == 3
\* largest number of characters of a line of the file
MaxLineLen == 2
\* how far cursor_x may run from 0 when screen_column - 1 has wrapped
MaxDrift == 1
\* widest window of the banner specification
MaxBannerColumns == 20
\* tallest window of the banner specification
MaxBannerRows == 3

(* ----------------------------- characters ----------------------------- *)

\* one-byte characters and a two-byte character (U+00E9) of a file
Chars == {"a", "U+00E9"}

\* char::len_utf8: the number of bytes of the UTF-8 encoding
Utf8Len(c) == IF c = "U+00E9" THEN 2 ELSE 1

\* the sequences over S of length at most n
SeqsUpTo(S, n) == UNION {[1..k -> S] : k \in 0..n}

\* str::len: the length of a string in bytes
RECURSIVE ByteLen(_)
ByteLen(s) == IF s = <<>> THEN 0 ELSE Utf8Len(Head(s)) + ByteLen(Tail(s))

\* str::is_char_boundary: byte offset n is the start of a character or the end
IsCharBoundary(s, n) == \E k \in 0..Len(s) : ByteLen(SubSeq(s, 1, k)) = n

\* the number of characters of s that end at or before byte offset n
CharsWithin(s, n) ==
  CHOOSE k \in 0..Len(s) :
    /\ ByteLen(SubSeq(s, 1, k)) <= n
    /\ \A j \in 0..Len(s) : ByteLen(SubSeq(s, 1, j)) <= n => j <= k

\* &s[..n]: the characters of the first n bytes; n is on a character boundary
SliceTo(s, n) == SubSeq(s, 1, CharsWithin(s, n))

Min(a, b) == IF a <= b THEN a ELSE b

Max(a, b) == IF a >= b THEN a ELSE b

(* --------------------------- frame contents --------------------------- *)

\* one element of the frame buffer: a character or a control sequence
Tok(kind) == <<kind, 0, 0>>

\* cursor::MoveTo(column, row), its arguments u16
MoveTo(x, y) == <<"MoveTo", x, y>>

Hide == Tok("Hide")

Show == Tok("Show")

ClearUntilNewLine == Tok("Clear(UntilNewLine)")

ClearAll == Tok("Clear(All)")

\* the two characters of "\r\n"
CrLf == <<Tok("\\r"), Tok("\\n")>>

\* a string pushed to the frame buffer, character by character
Text(s) == [k \in 1..Len(s) |-> Tok(s[k])]

\* the welcome banner of draw_rows, "Rust Text Editor"
Welcome == <<"R", "u", "s", "t", " ", "T", "e", "x", "t", " ", "E", "d", "i", "t", "o", "r">>

\* `as u16`: the low 16 bits
AsU16(n) == n % 65536

(* ------------------------------ key events ---------------------------- *)

\* KeyEvent { code, modifiers }
Key(code, modifiers) == [code |-> code, modifiers |-> modifiers]

NoKey == Key("none", "none")

CtrlQ == Key("Char(q)", "CONTROL")

MoveCodes == {"Up", "Down", "Left", "Right", "Home", "End"}

PageCodes == {"PageUp", "PageDown"}

\* the key events read_key returns: every move and page key unmodified, Ctrl+q,
\* and keys of each kind that no arm of process_keypress matches
Keys ==
  {Key(c, "NONE") : c \in MoveCodes \cup PageCodes}
    \cup {CtrlQ, Key("Char(q)", "NONE"), Key("Char(q)", "CONTROL|SHIFT"),
          Key("Up", "SHIFT"), Key("Down", "CONTROL"), Key("PageDown", "SHIFT")}

(* ---------------------------- CursorController ------------------------ *)

\* CursorController::new(win_size)
NewCursorController(win) ==
  [cursor_x |-> 0, cursor_y |-> 0, screen_column |-> win[1], screen_row |-> win[2],
   row_offset |-> 0]

\* `self.screen_column - 1` panics: the subtraction underflows and the build
\* checks overflow
ColumnMinusOnePanics(cc, overflow_checks) == cc.screen_column = 0 /\ overflow_checks

\* move_cursor with Right bounded by screen_column instead of screen_column - 1
MoveCursorRightPastEdge(direction, cc, number_of_rows, overflow_checks) ==
  IF direction = "Right"
    THEN [cc |-> IF cc.cursor_x # cc.screen_column
                   THEN [cc EXCEPT !.cursor_x = cc.cursor_x + 1] ELSE cc,
          panic |-> FALSE]
  ELSE IF direction = "Up"
    THEN [cc |-> [cc EXCEPT !.cursor_y = Max(cc.cursor_y - 1, 0)], panic |-> FALSE]
  ELSE IF direction = "Down"
    THEN [cc |-> IF cc.cursor_y < number_of_rows
                   THEN [cc EXCEPT !.cursor_y = cc.cursor_y + 1] ELSE cc,
          panic |-> FALSE]
  ELSE IF direction = "Left"
    THEN [cc |-> IF cc.cursor_x # 0 THEN [cc EXCEPT !.cursor_x = cc.cursor_x - 1] ELSE cc,
          panic |-> FALSE]
  ELSE IF direction = "Home"
    THEN [cc |-> [cc EXCEPT !.cursor_x = 0], panic |-> FALSE]
  ELSE IF ColumnMinusOnePanics(cc, overflow_checks)
    THEN [cc |-> cc, panic |-> TRUE]
  ELSE [cc |-> [cc EXCEPT !.cursor_x = cc.screen_column - 1], panic |-> FALSE]

\* move_cursor with Down bounded by number_of_rows - 1 instead of number_of_rows
MoveCursorDownStrict(direction, cc, number_of_rows, overflow_checks) ==
  IF direction = "Down"
    THEN [cc |-> IF cc.cursor_y + 1 < number_of_rows
                   THEN [cc EXCEPT !.cursor_y = cc.cursor_y + 1] ELSE cc,
          panic |-> FALSE]
  ELSE IF direction = "Up"
    THEN [cc |-> [cc EXCEPT !.cursor_y = Max(cc.cursor_y - 1, 0)], panic |-> FALSE]
  ELSE IF direction = "Left"
    THEN [cc |-> IF cc.cursor_x # 0 THEN [cc EXCEPT !.cursor_x = cc.cursor_x - 1] ELSE cc,
          panic |-> FALSE]
  ELSE IF direction = "Home"
    THEN [cc |-> [cc EXCEPT !.cursor_x = 0], panic |-> FALSE]
  ELSE IF ColumnMinusOnePanics(cc, overflow_checks)
    THEN [cc |-> cc, panic |-> TRUE]
  ELSE IF direction = "End"
    THEN [cc |-> [cc EXCEPT !.cursor_x = cc.screen_column - 1], panic |-> FALSE]
  ELSE [cc |-> IF cc.cursor_x # cc.screen_column - 1
                 THEN [cc EXCEPT !.cursor_x = cc.cursor_x + 1] ELSE cc,
        panic |-> FALSE]

\* move_cursor whose Down has no bound
MoveCursorDownUnbounded(direction, cc, number_of_rows, overflow_checks) ==
  IF direction = "Down"
    THEN [cc |-> [cc EXCEPT !.cursor_y = cc.cursor_y + 1],
          panic |-> FALSE]
  ELSE IF direction = "Up"
    THEN [cc |-> [cc EXCEPT !.cursor_y = Max(cc.cursor_y - 1, 0)], panic |-> FALSE]
  ELSE IF direction = "Left"
    THEN [cc |-> IF cc.cursor_x # 0 THEN [cc EXCEPT !.cursor_x = cc.cursor_x - 1] ELSE cc,
          panic |-> FALSE]
  ELSE IF direction = "Home"
    THEN [cc |-> [cc EXCEPT !.cursor_x = 0], panic |-> FALSE]
  ELSE IF ColumnMinusOnePanics(cc, overflow_checks)
    THEN [cc |-> cc, panic |-> TRUE]
  ELSE IF direction = "End"
    THEN [cc |-> [cc EXCEPT !.cursor_x = cc.screen_column - 1], panic |-> FALSE]
  ELSE [cc |-> IF cc.cursor_x # cc.screen_column - 1
                 THEN [cc EXCEPT !.cursor_x = cc.cursor_x + 1] ELSE cc,
        panic |-> FALSE]

\* move_cursor whose Home goes to the first column of the first line
MoveCursorHomeResetsRow(direction, cc, number_of_rows, overflow_checks) ==
  IF direction = "Down"
    THEN [cc |-> IF cc.cursor_y < number_of_rows
                   THEN [cc EXCEPT !.cursor_y = cc.cursor_y + 1] ELSE cc,
          panic |-> FALSE]
  ELSE IF direction = "Up"
    THEN [cc |-> [cc EXCEPT !.cursor_y = Max(cc.cursor_y - 1, 0)], panic |-> FALSE]
  ELSE IF direction = "Left"
    THEN [cc |-> IF cc.cursor_x # 0 THEN [cc EXCEPT !.cursor_x = cc.cursor_x - 1] ELSE cc,
          panic |-> FALSE]
  ELSE IF direction = "Home"
    THEN [cc |-> [cc EXCEPT !.cursor_x = 0, !.cursor_y = 0], panic |-> FALSE]
  ELSE IF ColumnMinusOnePanics(cc, overflow_checks)
    THEN [cc |-> cc, panic |-> TRUE]
  ELSE IF direction = "End"
    THEN [cc |-> [cc EXCEPT !.cursor_x = cc.screen_column - 1], panic |-> FALSE]
  ELSE [cc |-> IF cc.cursor_x # cc.screen_column - 1
                 THEN [cc EXCEPT !.cursor_x = cc.cursor_x + 1] ELSE cc,
        panic |-> FALSE]

\* CursorController::move_cursor: the controller after the move, and whether
\* the move panicked (the controller is then as before)
MoveCursor(direction, cc, number_of_rows, overflow_checks) ==
  CASE direction = "Up" ->
         [cc |-> [cc EXCEPT !.cursor_y = Max(cc.cursor_y - 1, 0)], panic |-> FALSE]
    [] direction = "Left" ->
         [cc |-> IF cc.cursor_x # 0 THEN [cc EXCEPT !.cursor_x = cc.cursor_x - 1] ELSE cc,
          panic |-> FALSE]
    [] direction = "Down" ->
         [cc |-> IF cc.cursor_y < number_of_rows
                   THEN [cc EXCEPT !.cursor_y = cc.cursor_y + 1] ELSE cc,
          panic |-> FALSE]
    [] direction = "Right" ->
         IF ColumnMinusOnePanics(cc, overflow_checks)
           THEN [cc |-> cc, panic |-> TRUE]
           ELSE [cc |-> IF cc.cursor_x # cc.screen_column - 1
                          THEN [cc EXCEPT !.cursor_x = cc.cursor_x + 1] ELSE cc,
                 panic |-> FALSE]
    [] direction = "End" ->
         IF ColumnMinusOnePanics(cc, overflow_checks)
           THEN [cc |-> cc, panic |-> TRUE]
           ELSE [cc |-> [cc EXCEPT !.cursor_x = cc.screen_column - 1], panic |-> FALSE]
    [] direction = "Home" ->
         [cc |-> [cc EXCEPT !.cursor_x = 0], panic |-> FALSE]
    [] OTHER -> [cc |-> cc, panic |-> TRUE]

\* scroll with the lower shift one short: cursor_y - screen_row
ScrollOneShort(cc) ==
  LET clamped == Min(cc.row_offset, cc.cursor_y)
  IN  [cc EXCEPT !.row_offset =
         IF cc.cursor_y >= clamped + cc.screen_row
           THEN Max(cc.cursor_y - cc.screen_row, 0)
           ELSE clamped]

\* scroll that moves up one line per call instead of min(row_offset, cursor_y)
ScrollUpByOne(cc) ==
  LET up == IF cc.cursor_y < cc.row_offset THEN cc.row_offset - 1 ELSE cc.row_offset
  IN  [cc EXCEPT !.row_offset =
         IF cc.cursor_y >= up + cc.screen_row
           THEN cc.cursor_y - cc.screen_row + 1
           ELSE up]

\* scroll that pulls the cursor back into the window below the band instead
\* of moving the window
ScrollClampsCursor(cc) ==
  LET clamped == Min(cc.row_offset, cc.cursor_y)
  IN  IF cc.cursor_y >= clamped + cc.screen_row
        THEN [cc EXCEPT !.row_offset = clamped,
                        !.cursor_y = Max(clamped + cc.screen_row - 1, 0)]
        ELSE [cc EXCEPT !.row_offset = clamped]

\* scroll that puts the cursor on the first window row whenever it moves
\* the window
ScrollToCursor(cc) ==
  LET clamped == Min(cc.row_offset, cc.cursor_y)
  IN  [cc EXCEPT !.row_offset =
         IF cc.cursor_y >= clamped + cc.screen_row
           THEN cc.cursor_y
           ELSE clamped]

\* CursorController::scroll
Scroll(cc) ==
  LET clamped == Min(cc.row_offset, cc.cursor_y)
  IN  [cc EXCEPT !.row_offset =
         IF cc.cursor_y >= clamped + cc.screen_row
           THEN cc.cursor_y - cc.screen_row + 1
           ELSE clamped]

\* (0..n).for_each(|_| move_cursor(direction)): n moves, one after the other
RECURSIVE MoveRepeated(_, _, _, _, _)
MoveRepeated(n, direction, cc, number_of_rows, overflow_checks) ==
  IF n = 0 THEN [cc |-> cc, panic |-> FALSE]
  ELSE LET m == MoveCursor(direction, cc, number_of_rows, overflow_checks)
       IN  IF m.panic THEN m
           ELSE MoveRepeated(n - 1, direction, m.cc, number_of_rows, overflow_checks)

\* process_keypress whose Ctrl+q arm falls through to Ok(true)
DispatchKeyQuitFallsThrough(key, cc, number_of_rows, overflow_checks) ==
  IF key.code \in MoveCodes /\ key.modifiers = "NONE"
    THEN LET m == MoveCursor(key.code, cc, number_of_rows, overflow_checks)
         IN  [continue |-> TRUE, cc |-> m.cc, panic |-> m.panic]
  ELSE IF key.code \in PageCodes /\ key.modifiers = "NONE"
    THEN LET m == MoveRepeated(cc.screen_row,
                               IF key.code = "PageUp" THEN "Up" ELSE "Down",
                               cc, number_of_rows, overflow_checks)
         IN  [continue |-> TRUE, cc |-> m.cc, panic |-> m.panic]
  ELSE [continue |-> TRUE, cc |-> cc, panic |-> FALSE]

\* process_keypress whose page arm repeats win_size.0 (columns) times
DispatchKeyPageByColumns(key, cc, number_of_rows, overflow_checks) ==
  IF key.code = "Char(q)" /\ key.modifiers = "CONTROL"
    THEN [continue |-> FALSE, cc |-> cc, panic |-> FALSE]
  ELSE IF key.code \in MoveCodes /\ key.modifiers = "NONE"
    THEN LET m == MoveCursor(key.code, cc, number_of_rows, overflow_checks)
         IN  [continue |-> TRUE, cc |-> m.cc, panic |-> m.panic]
  ELSE IF key.code \in PageCodes /\ key.modifiers = "NONE"
    THEN LET m == MoveRepeated(cc.screen_column,
                               IF key.code = "PageUp" THEN "Up" ELSE "Down",
                               cc, number_of_rows, overflow_checks)
         IN  [continue |-> TRUE, cc |-> m.cc, panic |-> m.panic]
  ELSE [continue |-> TRUE, cc |-> cc, panic |-> FALSE]

\* process_keypress whose move and page arms match the code with any modifiers
DispatchKeyIgnoresModifiers(key, cc, number_of_rows, overflow_checks) ==
  IF key.code = "Char(q)" /\ key.modifiers = "CONTROL"
    THEN [continue |-> FALSE, cc |-> cc, panic |-> FALSE]
  ELSE IF key.code \in MoveCodes
    THEN LET m == MoveCursor(key.code, cc, number_of_rows, overflow_checks)
         IN  [continue |-> TRUE, cc |-> m.cc, panic |-> m.panic]
  ELSE IF key.code \in PageCodes
    THEN LET m == MoveRepeated(cc.screen_row,
                               IF key.code = "PageUp" THEN "Up" ELSE "Down",
                               cc, number_of_rows, overflow_checks)
         IN  [continue |-> TRUE, cc |-> m.cc, panic |-> m.panic]
  ELSE [continue |-> TRUE, cc |-> cc, panic |-> FALSE]

\* the match of Editor::process_keypress on a key event: whether the loop goes
\* on (Ok(true)), the controller after it, and whether a move panicked
DispatchKey(key, cc, number_of_rows, overflow_checks) ==
  IF key.code = "Char(q)" /\ key.modifiers = "CONTROL"
    THEN [continue |-> FALSE, cc |-> cc, panic |-> FALSE]
  ELSE IF key.code \in MoveCodes /\ key.modifiers = "NONE"
    THEN LET m == MoveCursor(key.code, cc, number_of_rows, overflow_checks)
         IN  [continue |-> TRUE, cc |-> m.cc, panic |-> m.panic]
  ELSE IF key.code \in PageCodes /\ key.modifiers = "NONE"
    THEN LET m == MoveRepeated(cc.screen_row,
                               IF key.code = "PageUp" THEN "Up" ELSE "Down",
                               cc, number_of_rows, overflow_checks)
         IN  [continue |-> TRUE, cc |-> m.cc, panic |-> m.panic]
  ELSE [continue |-> TRUE, cc |-> cc, panic |-> FALSE]

(* --------------------------------- Output ----------------------------- *)

\* EditorRows::number_of_rows
NumberOfRows(rows) == Len(rows)

\* EditorRows::get_row(at), the document's lines indexed from 0
GetRow(rows, at) == rows[at + 1]

\* the index of get_row, row_contents[at], panics out of the document
GetRowPanics(rows, at) == at >= Len(rows)

\* the banner row without `padding -= 1` after the marker
WelcomeRowFullPadding(screen_column) ==
  LET welcome == IF Len(Welcome) > screen_column
                   THEN SubSeq(Welcome, 1, screen_column) ELSE Welcome
      padding == (screen_column - Len(welcome)) \div 2
  IN  IF padding # 0
        THEN <<Tok("~")>> \o [k \in 1..padding |-> Tok(" ")] \o Text(welcome)
        ELSE Text(welcome)

\* the banner row of draw_rows: the welcome text truncated to the window, with
\* the padding in front of it
WelcomeRow(screen_column) ==
  LET welcome == IF Len(Welcome) > screen_column
                   THEN SubSeq(Welcome, 1, screen_column) ELSE Welcome
      padding == (screen_column - Len(welcome)) \div 2
  IN  IF padding # 0
        THEN <<Tok("~")>> \o [k \in 1..(padding - 1) |-> Tok(" ")] \o Text(welcome)
        ELSE Text(welcome)

\* the document row of draw_rows: the slice row[..len] panics when len is not
\* on a character boundary
DocumentRow(row, screen_column) ==
  LET len == Min(ByteLen(row), screen_column)
  IN  IF IsCharBoundary(row, len)
        THEN [text |-> Text(SliceTo(row, len)), panic |-> FALSE]
        ELSE [text |-> <<>>, panic |-> TRUE]

\* draw_rows whose test for a row past the document is file_row > number_of_rows
DrawRowGuardOffByOne(i, win, row_offset, rows) ==
  LET screen_row == win[2]
      screen_column == win[1]
      file_row == i + row_offset
      body == IF file_row > NumberOfRows(rows)
                THEN [text |-> IF NumberOfRows(rows) = 0 /\ i = screen_row \div 3
                                 THEN WelcomeRow(screen_column)
                                 ELSE <<Tok("~")>>,
                      panic |-> FALSE, gets |-> {}]
                ELSE IF GetRowPanics(rows, file_row)
                  THEN [text |-> <<>>, panic |-> TRUE, gets |-> {file_row}]
                  ELSE [text |-> DocumentRow(GetRow(rows, file_row), screen_column).text,
                        panic |-> DocumentRow(GetRow(rows, file_row), screen_column).panic,
                        gets |-> {file_row}]
  IN  IF body.panic THEN body
      ELSE [text |-> body.text \o <<ClearUntilNewLine>>
                       \o (IF i < screen_row - 1 THEN CrLf ELSE <<>>),
            panic |-> FALSE, gets |-> body.gets]

\* what one iteration of the loop of draw_rows appends for window row i, and
\* the indexes it passes to get_row
DrawRow(i, win, row_offset, rows) ==
  LET screen_row == win[2]
      screen_column == win[1]
      file_row == i + row_offset
      body == IF file_row >= NumberOfRows(rows)
                THEN [text |-> IF NumberOfRows(rows) = 0 /\ i = screen_row \div 3
                                 THEN WelcomeRow(screen_column)
                                 ELSE <<Tok("~")>>,
                      panic |-> FALSE, gets |-> {}]
                ELSE IF GetRowPanics(rows, file_row)
                  THEN [text |-> <<>>, panic |-> TRUE, gets |-> {file_row}]
                  ELSE [text |-> DocumentRow(GetRow(rows, file_row), screen_column).text,
                        panic |-> DocumentRow(GetRow(rows, file_row), screen_column).panic,
                        gets |-> {file_row}]
  IN  IF body.panic THEN body
      ELSE [text |-> body.text \o <<ClearUntilNewLine>>
                       \o (IF i < screen_row - 1 THEN CrLf ELSE <<>>),
            panic |-> FALSE, gets |-> body.gets]

\* Output::draw_rows from window row i on: the frame buffer after the loop, or
\* as it is where a row panicked
RECURSIVE DrawRowsFrom(_, _, _, _, _, _)
DrawRowsFrom(i, buf, gets, win, row_offset, rows) ==
  IF i >= win[2] THEN [content |-> buf, panic |-> FALSE, gets |-> gets]
  ELSE LET r == DrawRow(i, win, row_offset, rows)
       IN  IF r.panic THEN [content |-> buf, panic |-> TRUE, gets |-> gets \cup r.gets]
           ELSE DrawRowsFrom(i + 1, buf \o r.text, gets \cup r.gets, win, row_offset, rows)

\* Output::draw_rows
DrawRows(buf, win, row_offset, rows) == DrawRowsFrom(0, buf, {}, win, row_offset, rows)

\* refresh_screen that draws the rows before it calls scroll()
ComposeFrameScrollsLast(buf, win, cc, rows) ==
  LET drawn == DrawRows(buf \o <<Hide, MoveTo(0, 0)>>, win, cc.row_offset, rows)
      scrolled == Scroll(cc)
  IN  [cc |-> scrolled,
       content |-> IF drawn.panic THEN drawn.content
                   ELSE drawn.content
                          \o <<MoveTo(AsU16(scrolled.cursor_x), AsU16(scrolled.cursor_y)),
                               Show>>,
       panic |-> drawn.panic,
       gets |-> drawn.gets]

\* Output::refresh_screen up to the flush: the controller after scroll, and the
\* frame buffer after hide, move-to-home, the rows, move-to-cursor and show
ComposeFrame(buf, win, cc, rows) ==
  LET scrolled == Scroll(cc)
      drawn == DrawRows(buf \o <<Hide, MoveTo(0, 0)>>, win, scrolled.row_offset, rows)
  IN  [cc |-> scrolled,
       content |-> IF drawn.panic THEN drawn.content
                   ELSE drawn.content
                          \o <<MoveTo(AsU16(scrolled.cursor_x), AsU16(scrolled.cursor_y)),
                               Show>>,
       panic |-> drawn.panic,
       gets |-> drawn.gets]

(* ------------------------------- the state ---------------------------- *)

VARIABLES
  pc,               \* where main is: "main", "new", "refresh", "key", "drop", "exited"
  overflow_checks,  \* whether the build checks integer overflow
  win_size,         \* Output.win_size: <<columns, rows>>
  row_contents,     \* EditorRows.row_contents: the lines, each a sequence of characters
  cursor_x,         \* CursorController.cursor_x
  cursor_y,         \* CursorController.cursor_y
  row_offset,       \* CursorController.row_offset
  content,          \* EditorContents.content: the frame buffer
  raw_mode,         \* whether the terminal is in raw mode
  out,              \* the writes to stdout issued by the latest step, in order
  last_key,         \* the key event dispatched since the latest refresh, or NoKey
  downs,            \* the number of key events so far if all were unmodified Down, else -1
  cleanup,          \* the calls of CleanUp::drop that returned Ok, in order
  row_gets,         \* the indexes passed to get_row by the latest refresh
  result            \* how main ends: "none" (running), "ok", "err", "panic", "abort"

vars == <<pc, overflow_checks, win_size, row_contents, cursor_x, cursor_y, row_offset,
          content, raw_mode, out, last_key, downs, cleanup, row_gets, result>>

\* the CursorController of the state
CC ==
  [cursor_x |-> cursor_x, cursor_y |-> cursor_y, screen_column |-> win_size[1],
   screen_row |-> win_size[2], row_offset |-> row_offset]

\* the windows terminal::size() reports
Windows == (0..MaxColumns) \X (0..MaxRows)

\* the lines of a file
Lines == SeqsUpTo(Chars, MaxLineLen)

\* the files read: no line, or up to MaxLines copies of one line
Documents == {[i \in 1..n |-> ln] : n \in 0..MaxLines, ln \in Lines}

\* the windows of the banner specification: wide enough for the whole banner
\* and its padding, and the window of the specification's example
BannerWindows == ((0..MaxBannerColumns) \X (0..MaxBannerRows)) \cup {<<40, 21>>}

\* main before `let _clean_up = CleanUp` has done anything else
Init ==
  /\ pc = "main"
  /\ overflow_checks \in BOOLEAN
  /\ win_size = <<0, 0>>
  /\ row_contents = <<>>
  /\ cursor_x = 0
  /\ cursor_y = 0
  /\ row_offset = 0
  /\ content = <<>>
  /\ raw_mode = FALSE
  /\ out = <<>>
  /\ last_key = NoKey
  /\ downs = 0
  /\ cleanup = <<>>
  /\ row_gets = {}
  /\ result = "none"

\* main leaves its body with `res`: the guard _clean_up is dropped next
Leave(res) ==
  /\ pc' = "drop"
  /\ result' = res

\* terminal::enable_raw_mode()?
EnableRawMode ==
  /\ pc = "main"
  /\ \E ok \in BOOLEAN :
       IF ok THEN /\ raw_mode' = TRUE
                  /\ pc' = "new"
                  /\ result' = result
             ELSE /\ raw_mode' = raw_mode
                  /\ Leave("err")
  /\ UNCHANGED <<overflow_checks, win_size, row_contents, cursor_x, cursor_y, row_offset,
                 content, out, last_key, downs, cleanup, row_gets>>

\* Editor::new(): Output::new() asks the window size (unwrap), makes the empty
\* frame buffer and the controller, and EditorRows::new() reads the file of
\* the first argument (expect), or no file.  A build without overflow checks
\* behaves as one with them unless the window has no column, and is followed
\* only there
EditorNew(windows, documents) ==
  /\ pc = "new"
  /\ \E size_ok \in BOOLEAN, win \in windows, readable \in BOOLEAN, doc \in documents :
       IF size_ok /\ readable
         THEN /\ overflow_checks \/ win[1] = 0
              /\ win_size' = win
              /\ row_contents' = doc
              /\ cursor_x' = NewCursorController(win).cursor_x
              /\ cursor_y' = NewCursorController(win).cursor_y
              /\ row_offset' = NewCursorController(win).row_offset
              /\ content' = <<>>
              /\ pc' = "refresh"
              /\ result' = result
         ELSE /\ Leave("panic")
              /\ UNCHANGED <<win_size, row_contents, cursor_x, cursor_y, row_offset, content>>
  /\ UNCHANGED <<overflow_checks, raw_mode, out, last_key, downs, cleanup, row_gets>>

\* flush that writes the control sequences in front apart from the rest
FlushInTwoWrites(frame) ==
  \E write_ok \in BOOLEAN, flush_ok \in BOOLEAN :
    /\ out' = <<SubSeq(frame, 1, 2), SubSeq(frame, 3, Len(frame))>>
    /\ content' = IF flush_ok THEN <<>> ELSE frame
    /\ IF write_ok /\ flush_ok
         THEN pc' = "key" /\ result' = result
         ELSE Leave("err")

\* flush without `self.content.clear()`
FlushKeepsContent(frame) ==
  \E write_ok \in BOOLEAN, flush_ok \in BOOLEAN :
    /\ out' = <<frame>>
    /\ content' = frame
    /\ IF write_ok /\ flush_ok
         THEN pc' = "key" /\ result' = result
         ELSE Leave("err")

\* EditorContents::flush on the composed frame: write!(stdout(), content),
\* then stdout().flush()? returns early on an error, else the buffer is
\* cleared and the result of the write returned
Flush(frame) ==
  \E write_ok \in BOOLEAN, flush_ok \in BOOLEAN :
    /\ out' = <<frame>>
    /\ content' = IF flush_ok THEN <<>> ELSE frame
    /\ IF write_ok /\ flush_ok
         THEN pc' = "key" /\ result' = result
         ELSE Leave("err")

\* Editor::run, first half: self.output.refresh_screen()?
RefreshScreen ==
  /\ pc = "refresh"
  /\ LET f == ComposeFrame(content, win_size, CC, row_contents)
     IN  /\ cursor_x' = f.cc.cursor_x
         /\ cursor_y' = f.cc.cursor_y
         /\ row_offset' = f.cc.row_offset
         /\ row_gets' = f.gets
         /\ IF f.panic
              THEN /\ content' = f.content
                   /\ out' = <<>>
                   /\ Leave("panic")
              ELSE Flush(f.content)
  /\ last_key' = NoKey
  /\ UNCHANGED <<overflow_checks, win_size, row_contents, raw_mode, downs, cleanup>>

\* the count of Down moves from the start, kept while it is at most the
\* number of lines
CountDown(key, number_of_rows) ==
  IF key = Key("Down", "NONE") /\ downs >= 0 /\ downs < number_of_rows
    THEN downs + 1 ELSE -1

\* Editor::run, second half: self.process_keypress(), which reads a key event
\* (read_key()?) and dispatches it
ProcessKeypress ==
  /\ pc = "key"
  /\ \E read_ok \in BOOLEAN, key \in Keys :
       IF ~read_ok
         THEN /\ Leave("err")
              /\ UNCHANGED <<cursor_x, cursor_y, row_offset, last_key, downs>>
         ELSE LET d == DispatchKey(key, CC, NumberOfRows(row_contents), overflow_checks)
              IN  /\ win_size[1] = 0 => d.cc.cursor_x \in (-MaxDrift)..MaxDrift
                  /\ last_key' = key
                  /\ downs' = CountDown(key, NumberOfRows(row_contents))
                  /\ cursor_x' = d.cc.cursor_x
                  /\ cursor_y' = d.cc.cursor_y
                  /\ row_offset' = d.cc.row_offset
                  /\ IF d.panic THEN Leave("panic")
                     ELSE IF ~d.continue THEN Leave("ok")
                     ELSE pc' = "refresh" /\ result' = result
  /\ out' = <<>>
  /\ row_gets' = {}
  /\ UNCHANGED <<overflow_checks, win_size, row_contents, content, raw_mode, cleanup>>

\* CleanUp::drop: disable_raw_mode().expect(..), then
\* Output::clear_screen().expect(..), which is execute!(Clear(All))? and then
\* execute!(MoveTo(0, 0)); a call that fails makes drop panic there, which
\* aborts the process when main is already panicking
CleanUpDrop ==
  /\ pc = "drop"
  /\ \E disable_ok \in BOOLEAN, clear_ok \in BOOLEAN, move_ok \in BOOLEAN :
       /\ raw_mode' = IF disable_ok THEN FALSE ELSE raw_mode
       /\ out' = IF ~disable_ok THEN <<>>
                 ELSE IF ~clear_ok THEN << <<ClearAll>> >>
                 ELSE << <<ClearAll>>, <<MoveTo(0, 0)>> >>
       /\ cleanup' = IF ~disable_ok THEN <<>>
                     ELSE IF ~clear_ok THEN <<"disable_raw_mode">>
                     ELSE IF ~move_ok THEN <<"disable_raw_mode", "Clear(All)">>
                     ELSE <<"disable_raw_mode", "Clear(All)", "MoveTo(0,0)">>
       /\ result' = IF disable_ok /\ clear_ok /\ move_ok THEN result
                    ELSE IF result = "panic" THEN "abort" ELSE "panic"
  /\ pc' = "exited"
  /\ UNCHANGED <<overflow_checks, win_size, row_contents, cursor_x, cursor_y, row_offset,
                 content, last_key, downs, row_gets>>

Next ==
  \/ EnableRawMode
  \/ EditorNew(Windows, Documents)
  \/ RefreshScreen
  \/ ProcessKeypress
  \/ CleanUpDrop

Spec == Init /\ [][Next]_vars

\* the same program started without a file in a window of up to
\* MaxBannerColumns columns, where the banner and its padding fit
BannerNext ==
  \/ EnableRawMode
  \/ EditorNew(BannerWindows, {<<>>})
  \/ RefreshScreen
  \/ ProcessKeypress
  \/ CleanUpDrop

BannerSpec == Init /\ [][BannerNext]_vars

(* ------------------------------- the claims --------------------------- *)

\* the window's columns and rows, and the document's length
Columns == win_size[1]

Rows == win_size[2]

LineCount == NumberOfRows(row_contents)

\* the latest step of main was refresh_screen, which called scroll()
JustScrolled == pc = "key" \/ (pc = "drop" /\ last_key = NoKey /\ Rows >= 1)

\* row_offset <= cursor_y <= row_offset + rows - 1
InBand(cc) ==
  /\ cc.row_offset <= cc.cursor_y
  /\ cc.cursor_y <= cc.row_offset + cc.screen_row - 1

\* C1: with rows >= 1, immediately after scroll() returns the cursor's row is
\* in the visible band, row_offset <= cursor_y <= row_offset + rows - 1: in
\* the state every refresh leaves, and for scroll() called in any state the
\* session reaches.
C1_ScrollInvariant ==
  Rows >= 1 =>
    /\ JustScrolled => InBand(CC)
    /\ pc \in {"refresh", "key"} => InBand(Scroll(CC))

\* C1 witness: a refresh has scrolled the window down to keep the cursor on
\* its last row
C1_Witness ==
  /\ pc = "key"
  /\ Rows >= 2
  /\ row_offset >= 1
  /\ cursor_y = row_offset + Rows - 1

\* C2: with columns >= 1, in every state reached by key events from (0, 0),
\* 0 <= cursor_x < columns and 0 <= cursor_y <= L, L the number of lines.
C2_CursorBounds ==
  Columns >= 1 =>
    /\ 0 <= cursor_x /\ cursor_x < Columns
    /\ 0 <= cursor_y /\ cursor_y <= LineCount

\* C2 witness: the cursor in the last column and one past the last line, below
\* the window's last row
C2_Witness ==
  /\ Columns >= 2
  /\ cursor_x = Columns - 1
  /\ cursor_y = LineCount
  /\ Rows >= 1
  /\ cursor_y > Rows - 1

\* C3: for every document line draw_rows renders in the window, rendering does
\* not panic, and a line of more than `columns` characters is emitted as
\* exactly its first `columns` characters.
C3_ClipsByCharacters ==
  pc \in {"refresh", "key"} =>
    \A i \in 0..(Rows - 1) :
      LET file_row == i + Scroll(CC).row_offset
      IN  file_row < LineCount =>
            LET row == GetRow(row_contents, file_row)
                drawn == DocumentRow(row, Columns)
            IN  /\ ~drawn.panic
                /\ Len(row) > Columns => drawn.text = Text(SubSeq(row, 1, Columns))

\* a write to stdout that is a frame of refresh_screen
IsFrame(w) == Len(w) >= 1 /\ w[1] = Hide

\* C4: the step that dispatches Ctrl+q (Char('q') with exactly CONTROL) makes
\* process_keypress return false, so main leaves its loop with Ok(()) without
\* moving the cursor or writing; from then on no refresh happens: the only
\* step left is the cleanup, no frame is composed and none is written.
C4_CtrlQEndsSession ==
  [][/\ (pc = "key" /\ last_key' = CtrlQ) =>
          /\ pc' = "drop"
          /\ result' = "ok"
          /\ out' = <<>>
          /\ <<cursor_x', cursor_y', row_offset', content'>>
               = <<cursor_x, cursor_y, row_offset, content>>
     /\ last_key = CtrlQ =>
          /\ pc = "drop"
          /\ pc' = "exited"
          /\ last_key' = CtrlQ
          /\ content' = content
          /\ \A k \in 1..Len(out') : ~IsFrame(out'[k])]_vars

\* C4 witness: the process has exited after Ctrl+q that followed other keys
C4_Witness ==
  /\ pc = "exited"
  /\ last_key = CtrlQ
  /\ cursor_y >= 1
  /\ result = "ok"

\* C5: every exit of the process has passed through the cleanup, which has
\* disabled raw mode, then cleared the screen, then moved the cursor to (0, 0).
C5_CleanupOnEveryExit ==
  pc = "exited" =>
    /\ ~raw_mode
    /\ cleanup = <<"disable_raw_mode", "Clear(All)", "MoveTo(0,0)">>
    /\ out = << <<ClearAll>>, <<MoveTo(0, 0)>> >>

\* C6: scroll() called again with the cursor unchanged leaves row_offset as
\* the first call set it: in the state every refresh leaves, and from every
\* row_offset for the cursor row and window of every reachable state.
C6_ScrollIdempotent ==
  pc \in {"refresh", "key"} =>
    /\ pc = "key" => Scroll(CC).row_offset = row_offset
    /\ \A ro \in 0..(MaxLines + 1) :
         LET cc == [CC EXCEPT !.row_offset = ro]
         IN  Scroll(Scroll(cc)).row_offset = Scroll(cc).row_offset

\* C6 witness: a refresh has scrolled the window up to the cursor's row
C6_Witness ==
  /\ pc = "key"
  /\ Rows >= 2
  /\ cursor_y >= 1
  /\ row_offset = cursor_y

\* n dispatches of the key event `key`, one after the other
RECURSIVE RepeatKey(_, _, _)
RepeatKey(n, key, cc) ==
  IF n = 0 THEN cc
  ELSE RepeatKey(n - 1, key, DispatchKey(key, cc, LineCount, overflow_checks).cc)

\* n dispatches of the key event `key`, each followed by the scroll() of the
\* refresh that follows it
RECURSIVE RepeatKeyAndScroll(_, _, _)
RepeatKeyAndScroll(n, key, cc) ==
  IF n = 0 THEN cc
  ELSE RepeatKeyAndScroll(n - 1, key,
                          Scroll(DispatchKey(key, cc, LineCount, overflow_checks).cc))

\* C7: a step that dispatches an unmodified PageDown (PageUp) leaves the
\* controller as `rows` dispatches of an unmodified Down (Up) from the same
\* state leave it, each capped as a single one is: cursor_y moves by rows and
\* stops at L (at 0), and stays 0 on an empty document; after the scroll() of
\* the next refresh the state is also the one that `rows` such key events,
\* each followed by its refresh, lead to.
C7_PageIsRepeatedStep ==
  [][(pc = "key" /\ last_key'.code \in PageCodes /\ last_key'.modifiers = "NONE") =>
       LET down == last_key'.code = "PageDown"
           step == Key(IF down THEN "Down" ELSE "Up", "NONE")
       IN  /\ pc' = "refresh"
           /\ CC' = RepeatKey(Rows, step, CC)
           /\ Scroll(CC') = Scroll(RepeatKeyAndScroll(Rows, step, CC))
           /\ cursor_y' = IF down THEN Min(cursor_y + Rows, LineCount)
                                  ELSE Max(cursor_y - Rows, 0)
           /\ (down /\ LineCount = 0) => cursor_y' = 0]_vars

\* C7 witness: PageDown has moved the cursor by several lines
C7_Witness ==
  /\ pc = "refresh"
  /\ last_key = Key("PageDown", "NONE")
  /\ Rows >= 2
  /\ cursor_y >= Rows
  /\ cursor_y > row_offset + Rows - 1

\* C8: with rows >= 1, after k <= L Down moves from the initial state the
\* cursor is at cursor_y = k and the following scroll() sets
\* row_offset = max(0, k - rows + 1): along the session, where a refresh
\* follows each key, and for k moves followed by one scroll().
C8_DownThenScroll ==
  (pc \in {"refresh", "key"} /\ Rows >= 1) =>
    /\ downs >= 0 =>
         /\ cursor_y = downs
         /\ Scroll(CC).row_offset = Max(0, downs - Rows + 1)
         /\ pc = "key" => row_offset = Max(0, downs - Rows + 1)
    /\ \A k \in 0..LineCount :
         LET moved == MoveRepeated(k, "Down", NewCursorController(win_size),
                                   LineCount, overflow_checks).cc
         IN  /\ moved.cursor_y = k
             /\ Scroll(moved).row_offset = Max(0, k - Rows + 1)

\* C8 witness: three Down moves in a window of two rows, then the refresh
C8_Witness ==
  /\ pc = "key"
  /\ downs = 3
  /\ Rows = 2
  /\ cursor_y = 3
  /\ row_offset = 2

\* the banner as shown: truncated to the window's columns
ShownBanner == SubSeq(Welcome, 1, Min(Len(Welcome), Columns))

\* (columns - len(banner)) / 2
BannerPadding == (Columns - Len(ShownBanner)) \div 2

Spaces(n) == [k \in 1..n |-> Tok(" ")]

\* the rows texts[i], i in from..(Rows - 1), each followed by the erase to the
\* end of the line and, but for the last, by the line break
RECURSIVE RowsFrom(_, _)
RowsFrom(texts, from) ==
  IF from >= Rows THEN <<>>
  ELSE texts[from] \o <<ClearUntilNewLine>>
         \o (IF from < Rows - 1 THEN CrLf ELSE <<>>)
         \o RowsFrom(texts, from + 1)

\* the frame whose window rows hold texts[0], .., texts[Rows - 1]
FrameOf(texts) ==
  <<Hide, MoveTo(0, 0)>> \o RowsFrom(texts, 0)
    \o <<MoveTo(AsU16(cursor_x), AsU16(cursor_y)), Show>>

\* C9 as stated: with an empty document the frame written holds the banner on
\* window row rows / 3 and only there (the other rows hold the filler marker),
\* as one '~', then (columns - len(banner)) / 2 spaces, then the banner; stated
\* for the windows wide enough for the banner and some padding, as the
\* window of 40 columns is.
C9_BannerAfterFullPadding ==
  (pc = "key" /\ LineCount = 0 /\ Columns >= Len(Welcome) + 2) =>
    out = <<FrameOf([i \in 0..(Rows - 1) |->
                       IF i = Rows \div 3
                         THEN <<Tok("~")>> \o Spaces(BannerPadding) \o Text(ShownBanner)
                         ELSE <<Tok("~")>>])>>

\* C9 amended: with an empty document the frame written holds the banner on
\* window row rows / 3 and only there; with p = (columns - len(banner)) / 2,
\* the banner truncated to the window's columns is preceded by one '~' and
\* p - 1 spaces when p >= 1 (the marker takes one of the p padding cells), and
\* by nothing when p = 0.
C9_BannerPlacement ==
  (pc = "key" /\ LineCount = 0) =>
    out = <<FrameOf([i \in 0..(Rows - 1) |->
                       IF i = Rows \div 3
                         THEN IF BannerPadding >= 1
                                THEN <<Tok("~")>> \o Spaces(BannerPadding - 1)
                                       \o Text(ShownBanner)
                                ELSE Text(ShownBanner)
                         ELSE <<Tok("~")>>])>>

\* C9 witness: the frame of the window of 40 columns and 21 rows, written
\* after the cursor has moved in it
C9_Witness ==
  /\ pc = "key"
  /\ LineCount = 0
  /\ win_size = <<40, 21>>
  /\ cursor_x >= 1
  /\ Len(out) = 1
  /\ Len(out[1]) > Len(Welcome)

\* C10: while the session loop runs, a refresh issues exactly one write to
\* stdout, the whole frame from hide-cursor to show-cursor passed by flush,
\* and the dispatch of a key issues none; a refresh that fails at its flush
\* has issued that one write and no other.
C10_OneWritePerCycle ==
  /\ pc = "key" =>
       /\ Len(out) = 1
       /\ IsFrame(out[1])
       /\ out[1][Len(out[1])] = Show
  /\ pc = "refresh" => out = <<>>
  /\ (pc = "drop" /\ result = "err" /\ raw_mode) => Len(out) <= 1

\* C10 witness: the one write of a refresh that followed a key event
C10_Witness ==
  /\ pc = "key"
  /\ downs >= 1
  /\ Len(out) = 1
  /\ IsFrame(out[1])

\* the number of tokens `tok` in the sequence w
Count(w, tok) == Cardinality({k \in 1..Len(w) : w[k] = tok})

\* C11: the frame buffer is empty at the start of every refresh cycle, the
\* first included, and empty again after every flush the session continues
\* from; the write of a cycle holds the frame composed in that cycle and no
\* byte of an earlier one: one hide-cursor in front, one show-cursor at the end
C11_FrameNeverPersists ==
  /\ pc \in {"refresh", "key"} => content = <<>>
  /\ pc = "key" =>
       /\ Len(out) = 1
       /\ out[1] = ComposeFrame(<<>>, win_size, CC, row_contents).content
       /\ Count(out[1], Hide) = 1 /\ out[1][1] = Hide
       /\ Count(out[1], Show) = 1 /\ out[1][Len(out[1])] = Show

\* the third cycle has flushed its frame and the buffer is empty again
C11_Witness ==
  /\ pc = "key"
  /\ downs = 2
  /\ content = <<>>
  /\ Len(out) = 1 /\ Len(out[1]) > 4

\* C12: refresh and key dispatch alternate strictly, a refresh first: a
\* refresh is entered from construction or after exactly one dispatched key, a
\* key is read only after a refresh that succeeded (one frame written), the
\* cursor position changes only in the dispatch step, and a refresh that fails
\* ends the loop with no key dispatched
C12_StrictAlternation ==
  [][
      /\ pc' = "refresh" =>
          \/ pc = "new" /\ last_key' = NoKey
          \/ pc = "key" /\ last_key' \in Keys
      /\ pc' = "key" => pc = "refresh" /\ last_key' = NoKey /\ Len(out') = 1
      /\ pc = "refresh" => pc' \in {"key", "drop"}
      /\ pc = "key" => pc' \in {"refresh", "drop"}
      /\ (cursor_x' # cursor_x \/ cursor_y' # cursor_y) => pc = "key" /\ last_key' \in Keys
      /\ pc = "refresh" /\ pc' = "drop" =>
          /\ result' \in {"err", "panic"}
          /\ last_key' = NoKey
          /\ cursor_x' = cursor_x /\ cursor_y' = cursor_y
      /\ pc = "drop" => pc' = "exited" /\ last_key' = last_key
  ]_vars

\* the refresh after the second dispatched key is about to run, with the
\* cursor moved by the keys below the window of the refresh before
C12_Witness ==
  /\ pc = "refresh"
  /\ last_key \in Keys
  /\ downs = 2
  /\ cursor_y >= row_offset + Rows
  /\ content = <<>>

\* the key events the editor acts on: Ctrl+q, and the move and page keys with
\* no modifier
IsBound(key) ==
  \/ key = CtrlQ
  \/ key.code \in MoveCodes \cup PageCodes /\ key.modifiers = "NONE"

\* C13: a key event that is not Ctrl+q and not an unmodified move or page key
\* (an arrow with Shift or Ctrl, plain q, q with CONTROL and another modifier)
\* leaves cursor_x, cursor_y and row_offset as they were, and the session goes
\* on to the next refresh
C13_OtherKeysAreNoOps ==
  [][
      pc = "key" /\ last_key' \in Keys /\ ~IsBound(last_key') =>
        /\ cursor_x' = cursor_x
        /\ cursor_y' = cursor_y
        /\ row_offset' = row_offset
        /\ pc' = "refresh"
        /\ result' = "none"
  ]_vars

\* Down with Ctrl held was dispatched where plain Down would have moved the
\* cursor, and the session goes on
C13_Witness ==
  /\ pc = "refresh"
  /\ last_key = Key("Down", "CONTROL")
  /\ cursor_y = 1
  /\ LineCount >= 2
  /\ result = "none"

\* C14: in every window (columns >= 0, rows >= 0), on every document and in
\* every reachable cursor state, each of the six moves and scroll() completes
\* without a panic and without an unsigned subtraction going below zero: no
\* dispatched key ends main by a panic, no move of the state panics, and
\* cursor_x never holds a wrapped value
C14_MovesNeverFail ==
  /\ ~(pc = "drop" /\ result = "panic" /\ last_key \in Keys)
  /\ pc \in {"refresh", "key"} =>
       /\ cursor_x >= 0
       /\ \A direction \in MoveCodes :
            LET m == MoveCursor(direction, CC, LineCount, overflow_checks)
            IN  ~m.panic /\ m.cc.cursor_x >= 0
       /\ Scroll(CC).row_offset >= 0

\* the move-to in front of the final show-cursor of the frame w
FinalMoveTo(w) == w[Len(w) - 1]

\* C15: at the end of every refresh, on a document longer than the window and
\* after Down moves only, the row of the frame's final move-to is the window
\* row of the cursor, cursor_y - row_offset, and lies inside the window,
\* 0 <= row < rows
C15_CursorShownOnVisibleRow ==
  pc = "key" /\ Columns >= 1 /\ Rows >= 1 /\ LineCount > Rows /\ downs >= 0 =>
    /\ FinalMoveTo(out[1])[1] = "MoveTo"
    /\ FinalMoveTo(out[1])[3] = cursor_y - row_offset
    /\ 0 <= FinalMoveTo(out[1])[3]
    /\ FinalMoveTo(out[1])[3] < Rows

\* the frame w between its two leading and its two final control sequences
FrameBody(w) == SubSeq(w, 3, Len(w) - 2)

\* the position of the n-th erase-to-end-of-line of w, 0 for n = 0
NthClear(w, n) ==
  IF n = 0 THEN 0
  ELSE CHOOSE k \in 1..Len(w) :
         w[k] = ClearUntilNewLine /\ Count(SubSeq(w, 1, k), ClearUntilNewLine) = n

\* the rendering of window row i in the frame body w: what stands between the
\* erase of the row before, with its line break, and the row's own erase
RowOfBody(w, i) ==
  LET from == NthClear(w, i) + (IF i = 0 THEN 1 ELSE 3)
  IN  SubSeq(w, from, NthClear(w, i + 1) - 1)

\* the control sequences and the parts of the line break
Controls ==
  {Hide, Show, ClearUntilNewLine, ClearAll, Tok("\\r"), Tok("\\n")}
    \cup {MoveTo(x, y) : x \in 0..MaxColumns, y \in 0..(MaxLines + 1)}

\* what window row i shows after scroll(): the document line i + row_offset,
\* or past the document the banner or the filler marker
RowAfterScroll(i) ==
  IF i + row_offset < LineCount
    THEN DocumentRow(GetRow(row_contents, i + row_offset), Columns).text
  ELSE IF LineCount = 0 /\ i = Rows \div 3 THEN WelcomeRow(Columns)
  ELSE <<Tok("~")>>

\* C16: every frame written is, in order, hide-cursor and move-to-(0,0), then
\* exactly `rows` row renderings, each followed at once by one erase to the
\* end of the line, with the line break "\r\n" after every row but the last
\* (rows - 1 line breaks in a window with a row), then a move-to and the
\* show-cursor last; the rows are those of the window after scroll()
C16_FrameShape ==
  pc = "key" =>
    LET w == out[1]
        body == FrameBody(w)
        texts == [i \in 0..(Rows - 1) |-> RowOfBody(body, i)]
    IN  /\ Len(w) >= 4
        /\ w[1] = Hide /\ w[2] = MoveTo(0, 0)
        /\ w[Len(w) - 1][1] = "MoveTo" /\ w[Len(w)] = Show
        /\ Count(body, ClearUntilNewLine) = Rows
        /\ body = RowsFrom(texts, 0)
        /\ \A i \in 0..(Rows - 1) :
             /\ \A k \in 1..Len(texts[i]) : texts[i][k] \notin Controls
             /\ texts[i] = RowAfterScroll(i)
        /\ Rows >= 1 =>
             /\ Count(body, Tok("\\r")) = Rows - 1
             /\ Count(body, Tok("\\n")) = Rows - 1
             /\ body[Len(body)] = ClearUntilNewLine

\* a frame of three rows written in a window scrolled into a document
C16_Witness ==
  /\ pc = "key"
  /\ Rows = 3
  /\ row_offset >= 1
  /\ LineCount >= 2
  /\ Count(out[1], ClearUntilNewLine) = 3
  /\ Count(out[1], Tok("\\n")) = 2

\* C17: on a document of L >= 1 lines Down moves the cursor one line down
\* while cursor_y < L, so repeated Down from the first line reaches cursor_y = L;
\* a Down at cursor_y = L changes nothing; and the frame of the next refresh
\* shows on the window row of the cursor, cursor_y - row_offset, the filler
\* marker and no document line
C17_DownStopsOnePastLastLine ==
  /\ pc \in {"refresh", "key"} /\ LineCount >= 1 =>
       LET down == DispatchKey(Key("Down", "NONE"), CC, LineCount, overflow_checks)
       IN  /\ down.continue /\ ~down.panic
           /\ cursor_y <= LineCount
           /\ cursor_y < LineCount => down.cc = [CC EXCEPT !.cursor_y = cursor_y + 1]
           /\ cursor_y = LineCount => down.cc = CC
  /\ downs >= 0 => cursor_y = downs
  /\ pc = "key" /\ LineCount >= 1 /\ cursor_y = LineCount /\ Rows >= 1 =>
       /\ cursor_y - row_offset \in 0..(Rows - 1)
       /\ RowOfBody(FrameBody(out[1]), cursor_y - row_offset) = <<Tok("~")>>

\* L Down moves from the first line of a document of L = 2 lines have put the
\* cursor at cursor_y = L, and the refresh after them has written its frame
C17_Witness ==
  /\ pc = "key"
  /\ LineCount = 2
  /\ downs = LineCount
  /\ cursor_y = LineCount
  /\ Rows >= 1
  /\ Len(out) = 1

\* C18: a refresh passes to get_row only indexes file_row = i + row_offset of
\* window rows i in 0..rows - 1 with file_row < line_count, so that no access
\* to the document is out of bounds; the window rows with file_row >= line_count
\* are rendered as filler or banner without reading the document
C18_GuardedDocumentAccess ==
  /\ \A at \in row_gets :
       /\ 0 <= at /\ at < LineCount
       /\ ~GetRowPanics(row_contents, at)
       /\ \E i \in 0..(Rows - 1) : at = i + row_offset
  /\ pc = "key" =>
       /\ row_gets = {i + row_offset : i \in 0..(Rows - 1)} \cap 0..(LineCount - 1)
       /\ \A i \in 0..(Rows - 1) :
            i + row_offset >= LineCount =>
              RowOfBody(FrameBody(out[1]), i) =
                IF LineCount = 0 /\ i = Rows \div 3 THEN WelcomeRow(Columns)
                ELSE <<Tok("~")>>

\* a refresh of a window scrolled to the end of a document has read the last
\* line and rendered the row after it as filler
C18_Witness ==
  /\ pc = "key"
  /\ Rows >= 2
  /\ LineCount >= 2
  /\ row_offset >= 1
  /\ (LineCount - 1) \in row_gets
  /\ row_offset + Rows > LineCount

\* C19: a move never changes row_offset, the window or the document;
\* Left, Right, Home and End leave cursor_y as it was, Up, Down and the page
\* keys leave cursor_x as it was; scroll() changes nothing but row_offset, and
\* neither does the whole refresh
C19_FrameConditions ==
  [][
      /\ pc = "key" =>
          /\ row_offset' = row_offset
          /\ win_size' = win_size
          /\ row_contents' = row_contents
          /\ last_key'.modifiers = "NONE" /\ last_key'.code \in {"Left", "Right", "Home", "End"}
               => cursor_y' = cursor_y
          /\ last_key'.modifiers = "NONE" /\ last_key'.code \in {"Up", "Down"} \cup PageCodes
               => cursor_x' = cursor_x
      /\ pc = "refresh" =>
          /\ cursor_x' = cursor_x
          /\ cursor_y' = cursor_y
          /\ win_size' = win_size
          /\ row_contents' = row_contents
          /\ Scroll(CC) = [CC EXCEPT !.row_offset = row_offset']
  ]_vars

\* End has put the cursor on the last column of a line below the first, in a
\* window the refresh before had scrolled
C19_Witness ==
  /\ pc = "refresh"
  /\ last_key = Key("End", "NONE")
  /\ Columns >= 2
  /\ cursor_x = Columns - 1
  /\ cursor_y >= 1
  /\ row_offset >= 1

\* the distance between two offsets
Distance(a, b) == IF a >= b THEN a - b ELSE b - a

\* C20: scroll() moves the window the least distance that brings the cursor
\* into the band: with rows >= 1, for the cursor of every reachable state and
\* every row_offset before the call, row_offset is unchanged when the cursor
\* is inside the band, is cursor_y when the cursor was above the band and
\* cursor_y - rows + 1 when it was below; no offset with the cursor in its
\* band is nearer to the one before.  The refresh about to run does so.
C20_MinimalScrolling ==
  pc \in {"refresh", "key"} /\ Rows >= 1 =>
    \A before \in 0..(MaxLines + 1) :
      LET cc == [CC EXCEPT !.row_offset = before]
          after == Scroll(cc).row_offset
      IN  /\ InBand(cc) => after = before
          /\ cursor_y < before => after = cursor_y
          /\ cursor_y > before + Rows - 1 => after = cursor_y - Rows + 1
          /\ \A other \in 0..(MaxLines + 1) :
               InBand([cc EXCEPT !.row_offset = other])
                 => Distance(after, before) <= Distance(other, before)
          /\ pc = "refresh" /\ before = row_offset =>
               ComposeFrame(content, win_size, CC, row_contents).cc.row_offset = after

\* PageUp has taken the cursor above the band of a scrolled window, and the
\* refresh whose scroll() moves the window up to it is next
C20_Witness ==
  /\ pc = "refresh"
  /\ last_key = Key("PageUp", "NONE")
  /\ Rows = 2
  /\ row_offset = 2
  /\ cursor_y < row_offset
  /\ Scroll(CC).row_offset = cursor_y

=============================================================================
